---- MODULE Spec2Model ----
(***************************************************************************)
(* Job dispatch and result propagation of giraycoskun/automated-reasoning. *)
(*                                                                         *)
(* Two pipelines live in the repository and are modelled side by side:     *)
(*                                                                         *)
(*   Spec        the problems pipeline: save_problem (API) -> work queue   *)
(*               -> Worker.callback -> _solve -> save_solution_to_redis    *)
(*   LegacySpec  the puzzle pipeline: PuzzleService.create_puzzle ->       *)
(*               puzzle queue -> puzzle_consumer._on_message -> result     *)
(*               queue -> consume_results._on_message ->                   *)
(*               process_result_message -> ResultStreamer                  *)
(*                                                                         *)
(* The key-value store and the broker are external; their calls either     *)
(* succeed or raise, chosen nondeterministically.                          *)
(***************************************************************************)
EXTENDS Integers, Sequences, FiniteSets, TLC

\* ------------------------------------------------------------------ bounds
NumWorkers == 2
MaxId == 2
MaxSubmit == 1
MaxRequeue == 1
MaxForeign == 1
NumConsumers == 2
MaxPuzzle == 2
PoolSize == 2
MaxStreams == 2
MaxQueue == 3
Capacity == 2

Workers == 1..NumWorkers
ProblemIds == 1..MaxId
Requests == 1..MaxSubmit
Consumers == 1..NumConsumers
PuzzleIds == 1..MaxPuzzle
PuzzleRequests == 1..MaxPuzzle
\* A puzzle_id that no create_puzzle call has generated, and the keys of Redis.
UnknownId == MaxPuzzle + 1
HashKeys == PuzzleIds \cup {UnknownId}
Streams == 1..MaxStreams

\* ------------------------------------------------------- schema enumerations
ProblemType == {"search", "csp", "sat", "ip"}
ProblemName == {"base", "sudoku", "n_queens", "graph_coloring", "knapsack"}
ProblemStatus == {"CREATED", "IN_QUEUE", "SOLVED", "UNSOLVABLE", "UNSUPPORTED", "FAILED"}
TerminalStatus == {"SOLVED", "UNSOLVABLE", "FAILED", "UNSUPPORTED"}
PuzzleStatus == {"CREATED", "IN_PROGRESS", "SOLVED", "FAILED"}

NoRecord == [kind |-> "none"]
NoMsg == [kind |-> "none"]
NoSolution == [kind |-> "none"]
Null == [kind |-> "null"]
Malformed == [kind |-> "malformed"]

\* Submitted grids (rows of digits, 0 = empty cell), on the smallest board
\* with boxes: one with a single completion, and one whose first row holds
\* the clue 1 twice.
SolvableGrid ==
    << <<1, 0, 0, 4>>, <<3, 4, 1, 2>>, <<2, 1, 4, 3>>, <<4, 3, 2, 1>> >>
ContradictoryGrid ==
    << <<1, 1, 0, 4>>, <<3, 4, 1, 2>>, <<2, 1, 4, 3>>, <<4, 3, 2, 1>> >>
\* size: the side of the submitted grids.
Size == Len(SolvableGrid)

\* ------------------------------------------------------- request bodies
\* The characters a submitted row is made of: the digits, the underscore the
\* validator lets through, and one that is neither.
DigitChars == {"0", "1", "2", "3", "4"}
Chars == DigitChars \cup {"_", "x"}

\* int(c) of create_sudoku_ip_problem's map(int, row); ValueError otherwise.
int(c) ==
    CASE c = "0" -> 0 [] c = "1" -> 1 [] c = "2" -> 2 [] c = "3" -> 3 [] c = "4" -> 4

\* A grid as JSON: a list of rows, each a string of characters.
SolvableRows ==
    << <<"1", "0", "0", "4">>, <<"3", "4", "1", "2">>,
       <<"2", "1", "4", "3">>, <<"4", "3", "2", "1">> >>
ContradictoryRows ==
    << <<"1", "1", "0", "4">>, <<"3", "4", "1", "2">>,
       <<"2", "1", "4", "3">>, <<"4", "3", "2", "1">> >>
\* empty cells written as underscores
UnderscoreRows ==
    << <<"1", "_", "_", "4">>, <<"3", "4", "1", "2">>,
       <<"2", "1", "4", "3">>, <<"4", "3", "2", "1">> >>
\* the first row one character short
ShortRowRows ==
    << <<"1", "0", "0">>, <<"3", "4", "1", "2">>,
       <<"2", "1", "4", "3">>, <<"4", "3", "2", "1">> >>
\* a character outside [0-9_]
BadCharRows ==
    << <<"1", "x", "0", "4">>, <<"3", "4", "1", "2">>,
       <<"2", "1", "4", "3">>, <<"4", "3", "2", "1">> >>
\* one row missing
MissingRowRows ==
    << <<"1", "0", "0", "4">>, <<"3", "4", "1", "2">>, <<"2", "1", "4", "3">> >>

\* SudokuCreateRequest.validate_grid: every row present has the full length
\* and only digits or underscores; FALSE stands for the ValueError.
validate_grid(v) ==
    \A i \in DOMAIN v :
        /\ Len(v[i]) = Size
        /\ \A j \in DOMAIN v[i] : v[i][j] \in DigitChars \cup {"_"}

\* [list(map(int, row)) for row in grid] converts when every character is a
\* digit.
int_ok(grid) == \A i \in DOMAIN grid : \A j \in DOMAIN grid[i] : grid[i][j] \in DigitChars
int_grid(grid) == [i \in DOMAIN grid |-> [j \in DOMAIN grid[i] |-> int(grid[i][j])]]

\* Requests: POST /problems/ip/sudoku and /problems/sat/sudoku with a grid,
\* and a base Problem of a registered type whose name has no model, handed
\* to save_problem without a request body (no rows).
Submissions ==
    {[route |-> "ip", grid |-> g] :
        g \in {SolvableRows, ContradictoryRows, UnderscoreRows, ShortRowRows,
               BadCharRows, MissingRowRows}}
    \cup {[route |-> "sat", grid |-> SolvableRows]}
    \cup {[route |-> "base", grid |-> <<>>]}

\* The Problem instance each accepted request builds.  problem_class defaults
\* to the defining module's __name__; the SAT route keeps the rows as sent.
Template(s) ==
    CASE s.route = "ip" ->
           [cls |-> "Sudoku", problem_class |-> "clients.schemas.sudoku",
            problem_type |-> "ip", problem_name |-> "sudoku", grid |-> int_grid(s.grid)]
      [] s.route = "sat" ->
           [cls |-> "Sudoku", problem_class |-> "clients.schemas.sat.sudoku",
            problem_type |-> "sat", problem_name |-> "Sudoku", grid |-> s.grid]
      [] s.route = "base" ->
           [cls |-> "Problem", problem_class |-> "clients.schemas.problems",
            problem_type |-> "ip", problem_name |-> "knapsack", grid |-> Null]

\* Problem(...) / Sudoku(...): status defaults to CREATED, solution to None;
\* grid stands for problem_data["grid"], which Sudoku.__post_init__ fills.
Problem(id, t) ==
    [cls |-> t.cls, problem_class |-> t.problem_class, problem_id |-> id,
     problem_type |-> t.problem_type, problem_name |-> t.problem_name,
     grid |-> t.grid, status |-> "CREATED", solution |-> Null]

VARIABLES
    kv,             \* Redis: problem_id -> stored Problem, or NoRecord
    workQueue,      \* broker: ready messages of the problems queue
    requeues,       \* broker: how many deliveries were requeued so far
    api,            \* save_problem requests: position and the Problem built
    foreign,        \* bodies published to the problems queue by other clients
    wpc,            \* Worker: position inside callback
    wmsg,           \* Worker: the delivered, unsettled message
    wsol,           \* Worker: Solution returned by _solve
    wrec,           \* Worker: Problem loaded by save_solution_to_redis
    settle,         \* Worker: its last delivery and the basic_ack / basic_nack calls on it
    shutdown_event, \* multiprocessing.Event shared with the supervisor
    sup,            \* SolverService: position of main (start, stop)
    sse,            \* event_generator of /problems/subscribe: position, frames sent
    hkv,            \* Redis hashes: puzzle_id -> [status, output], or NoRecord
    puzzleQueue,    \* broker: ready messages of the puzzle queue
    resultQueue,    \* broker: ready messages of the result queue
    connections,    \* RabbitMQRepository.connections: pooled connections available
    papi,           \* create_puzzle requests: position and puzzle_id
    cpc,            \* puzzle_consumer: position inside _on_message
    cmsg,           \* puzzle_consumer: the delivered, unsettled message
    pforeign,       \* bodies published to the puzzle queue by other clients
    csettle,        \* puzzle_consumer: its last delivery and the ack / nack calls on it
    lpc,            \* result listener thread: position
    lsettle,        \* result listener: its last delivery and the ack calls on it
    tasks,          \* event loop: process_result_message tasks scheduled by _handle
    subscribers,    \* ResultStreamer._subscribers: puzzle_id -> set of queues
    squeue,         \* the asyncio.Queue of each stream: undelivered payloads
    spc,            \* each stream() generator: closed, or the puzzle_id it watches
    sat,            \* SAT Sudoku codec: the variable numbered, the model, the grid decoded
    ipsolve         \* IP Sudoku codec: the grid encoded, the solver's assignment, the grid decoded

pvars == <<kv, workQueue, requeues, api, foreign, wpc, wmsg, wsol, wrec, settle,
           shutdown_event, sup, sse>>

lvars == <<hkv, puzzleQueue, resultQueue, connections, papi, pforeign, cpc, cmsg,
           csettle,
           lpc, lsettle, tasks, subscribers, squeue, spc>>

evars == <<sat, ipsolve>>

vars == <<pvars, lvars, evars>>

\* ------------------------------------------------------------- codec
\* _serialize_problem: asdict(problem) packed; the class survives only as the
\* problem_class string.
serialize_problem(p) ==
    [kind |-> "bytes", problem_class |-> p.problem_class, problem_id |-> p.problem_id,
     problem_type |-> p.problem_type, problem_name |-> p.problem_name,
     grid |-> p.grid, status |-> p.status, solution |-> p.solution]

\* cls_map.get(cls_name, Problem)
cls_map(cls_name) == IF cls_name \in {"Problem", "Sudoku"} THEN cls_name ELSE "Problem"

\* the class's default for problem_class (its module's __name__)
default_problem_class(cls) ==
    IF cls = "Sudoku" THEN "clients.schemas.sat.sudoku" ELSE "clients.schemas.problems"

\* msgpack.unpackb raises on a body that is not a packed mapping
deserialize_ok(blob) == blob.kind = "bytes"

\* _deserialize_problem: problem_class is popped and only selects the class.
deserialize_problem(blob) ==
    LET cls == cls_map(blob.problem_class) IN
    [cls |-> cls, problem_class |-> default_problem_class(cls),
     problem_id |-> blob.problem_id, problem_type |-> blob.problem_type,
     problem_name |-> blob.problem_name, grid |-> blob.grid,
     status |-> blob.status, solution |-> blob.solution]

\* ------------------------------------------------------------- registry
\* ProblemModelMap: only ProblemType.IP is a key; its "model" dict only has SUDOKU.
ProblemModelMapKeys == {"ip"}
ModelNames(t) == IF t = "ip" THEN {"sudoku"} ELSE {}

\* ------------------------------------------------------- Sudoku as an IP
Rows == 0 .. (Size - 1)
Digits == 1 .. Size
Cell(grid, i, j) == grid[i + 1][j + 1]

\* int(size ** 0.5)
box_size(size) == CHOOSE b \in 0 .. size : b * b <= size /\ (b + 1) * (b + 1) > size

\* sudoku_to_ip_constraints: binary variables x_i_j_k (here <<i, j, k>>) and
\* the equality constraints, each with coefficient 1 on its variables and
\* rhs 1: one digit per cell, one constraint per clue, each digit once per
\* row, per column and per box.
sudoku_to_ip_constraints(grid, size) ==
    LET R == 0 .. (size - 1)
        K == 1 .. size
        bs == box_size(size)
        C(name, coeffs) == [name |-> name, coefficients |-> coeffs, rhs |-> 1]
    IN  [variables |-> R \X R \X K,
         constraints |->
              {C(<<"cell", c[1], c[2]>>, {<<c[1], c[2], k>> : k \in K}) : c \in R \X R}
         \cup {C(<<"clue", c[1], c[2]>>, {<<c[1], c[2], Cell(grid, c[1], c[2])>>}) :
                  c \in {d \in R \X R : Cell(grid, d[1], d[2]) /= 0}}
         \cup {C(<<"row", c[1], c[2]>>, {<<c[1], j, c[2]>> : j \in R}) : c \in R \X K}
         \cup {C(<<"col", c[1], c[2]>>, {<<i, c[1], c[2]>> : i \in R}) : c \in R \X K}
         \cup {C(<<"box", c[1], c[2], c[3]>>,
                 {<<d[1], d[2], c[3]>> :
                     d \in ((c[1] * bs) .. ((c[1] + 1) * bs - 1))
                           \X ((c[2] * bs) .. ((c[2] + 1) * bs - 1))}) :
                  c \in (0 .. (bs - 1)) \X (0 .. (bs - 1)) \X K}]

\* --------------------------------------------------------- solver adapter
\* An assignment is the set of the binary variables with value 1.  A
\* constraint counts only the variables the model has ("if var_name in
\* variables").
Satisfies(ones, c, variables) ==
    Cardinality((c.coefficients \cap variables) \cap ones) = c.rhs

\* The assignments the search runs over: every variable fixed by a constraint
\* on it alone is 1, and every other cell takes one digit.
Candidates(pd) ==
    LET fixed == UNION {c.coefficients :
                           c \in {d \in pd.constraints : Cardinality(d.coefficients) = 1}}
        cells == {<<v[1], v[2]>> : v \in pd.variables}
        free == {c \in cells : ~\E v \in fixed : <<v[1], v[2]>> = c}
        digits == {v[3] : v \in pd.variables}
    IN  {fixed \cup {<<c[1], c[2], f[c]>> : c \in free} : f \in [free -> digits]}

\* solver.Solve(): the assignments that satisfy every constraint.
FeasibleAssignments(pd) ==
    {ones \in Candidates(pd) :
        \A c \in pd.constraints : Satisfies(ones, c, pd.variables)}

\* The solutions of the submitted grids' formulations.
ortools_solutions ==
    [g \in {SolvableGrid, ContradictoryGrid} |->
        FeasibleAssignments(sudoku_to_ip_constraints(g, Size))]

\* _solve_with_ortools: the "status" of the dict it returns.
SolverResults == {"optimal", "feasible", "unsolvable", "error"}
isSolved(r) == r \in {"optimal", "feasible"}

\* _solve_with_ortools on the formulation of grid: the dicts it can return.
\* OPTIMAL and FEASIBLE carry "variables"; INFEASIBLE, NOT_SOLVED (time
\* limit) and a caught exception do not, which .get("variables", {}) reads
\* as the empty dict.
solve_with_ortools(grid) ==
    {[kind |-> "result", status |-> st, variables |-> ones] :
        st \in {"optimal", "feasible"}, ones \in ortools_solutions[grid]}
    \cup (IF ortools_solutions[grid] = {}
          THEN {[kind |-> "result", status |-> "unsolvable", variables |-> {}]}
          ELSE {})
    \cup {[kind |-> "result", status |-> "error", variables |-> {}]}

Solution(id, data, st) == [problem_id |-> id, solution_data |-> data, status |-> st]

\* IPSolverService.solve: SOLVED when isSolved, otherwise UNSOLVABLE.
IPSolverService_solve(id, r) ==
    Solution(id, r, IF isSolved(r.status) THEN "SOLVED" ELSE "UNSOLVABLE")

\* A decoder that would write x_i_j_k into grid[j][i].
ip_solution_transposed(ones, size) ==
    [i \in 1 .. size |->
        [j \in 1 .. size |->
            LET ks == {k \in 1 .. size : <<j - 1, i - 1, k>> \in ones}
            IN  IF ks = {} THEN 0 ELSE CHOOSE k \in ks : \A m \in ks : m <= k]]

\* ip_solution_to_sudoku_grid: a grid of zeros in which cell (i, j) gets k
\* for every x_i_j_k that rounds to 1, in the dict's order (k ascending).
ip_solution_to_sudoku_grid(ones, size) ==
    [i \in 1 .. size |->
        [j \in 1 .. size |->
            LET ks == {k \in 1 .. size : <<i - 1, j - 1, k>> \in ones}
            IN  IF ks = {} THEN 0 ELSE CHOOSE k \in ks : \A m \in ks : m <= k]]

\* SudokuProblemModel.write_back_solution: rebuilds solution_data around the
\* decoded grid (all zeros without "variables") and sets SOLVED.
write_back_solution(id, s) ==
    Solution(id,
             [kind |-> "grid",
              grid |-> ip_solution_to_sudoku_grid(s.solution_data.variables, Size),
              status |-> s.solution_data.status],
             "SOLVED")

\* sudoku_to_ip_constraints reads grid[i][j] for every i, j below size:
\* IndexError on a grid with fewer rows or a shorter row.
Indexable(grid, size) ==
    /\ Len(grid) >= size
    /\ \A i \in 1 .. size : Len(grid[i]) >= size

\* The solver is reached only by a problem of a registered pair with a grid
\* that sudoku_to_ip_constraints can read.
ReachesSolver(p) ==
    /\ p.problem_type \in ProblemModelMapKeys
    /\ p.problem_name \in ModelNames(p.problem_type)
    /\ p.grid /= Null
    /\ Indexable(p.grid, Size)

\* Worker._solve for a decoded problem p and the adapter's result r.
Worker_solve(p, r) ==
    IF p.problem_type \notin ProblemModelMapKeys
    THEN \* KeyError
         Solution(p.problem_id, [kind |-> "error"], "UNSUPPORTED")
    ELSE IF p.problem_name \notin ModelNames(p.problem_type)
    THEN \* .get() returned None; calling it raises TypeError
         Solution(p.problem_id, [kind |-> "error"], "FAILED")
    ELSE IF p.grid = Null
    THEN \* SudokuProblemModel.__post_init__ raises ValueError
         Solution(p.problem_id, [kind |-> "error"], "FAILED")
    ELSE IF ~Indexable(p.grid, Size)
    THEN \* sudoku_to_ip_constraints raises IndexError in __post_init__
         Solution(p.problem_id, [kind |-> "error"], "FAILED")
    ELSE write_back_solution(p.problem_id, IPSolverService_solve(p.problem_id, r))

\* The results _solve can get from the adapter for p.
AdapterResults(p) == IF ReachesSolver(p) THEN solve_with_ortools(p.grid) ELSE {Null}

\* ------------------------------------------------------------- Init
\* The state after construction, for a pool of rabbitmq_pool_size connections.
InitWith(rabbitmq_pool_size) ==
    /\ kv = [i \in ProblemIds |-> NoRecord]
    /\ workQueue = <<>>
    /\ requeues = 0
    /\ api = [r \in Requests |-> [pc |-> "new", request |-> NoMsg, problem |-> NoMsg]]
    /\ foreign = 0
    /\ wpc = [w \in Workers |-> "new"]
    /\ wmsg = [w \in Workers |-> NoMsg]
    /\ wsol = [w \in Workers |-> NoSolution]
    /\ wrec = [w \in Workers |-> NoRecord]
    /\ settle = [w \in Workers |-> <<>>]
    /\ shutdown_event = FALSE
    /\ sup = "init"
    /\ sse = [pc |-> "new", problem_id |-> 0, early |-> FALSE, frames |-> <<>>]
    /\ hkv = [i \in HashKeys |-> NoRecord]
    /\ puzzleQueue = <<>>
    /\ resultQueue = <<>>
    /\ connections = rabbitmq_pool_size
    /\ papi = [q \in PuzzleRequests |-> [pc |-> "new", puzzle_id |-> 0]]
    /\ pforeign = 0
    /\ cpc = [c \in Consumers |-> "idle"]
    /\ cmsg = [c \in Consumers |-> NoMsg]
    /\ csettle = [c \in Consumers |-> <<>>]
    /\ lpc = "init"
    /\ lsettle = <<>>
    /\ tasks = <<>>
    /\ subscribers = [i \in {} |-> {}]
    /\ squeue = [s \in Streams |-> <<>>]
    /\ spc = [s \in Streams |-> [pc |-> "new", puzzle_id |-> 0]]
    /\ sat = [pc |-> "new", cell |-> <<>>, assignment |-> {}, grid |-> <<>>]
    /\ ipsolve = [pc |-> "new", grid |-> <<>>, problem_data |-> <<>>, assigned |-> 0,
                  ones |-> {}, out |-> <<>>]

Init == InitWith(PoolSize)

\* ------------------------------------------------------------- API
\* post_sudoku: FastAPI builds SudokuCreateRequest from the body (a grid
\* that validate_grid refuses is answered 422 and the handler never runs);
\* the IP route then converts the rows with int, whose ValueError ends the
\* request with a 500.
post_sudoku(r) ==
    /\ api[r].pc = "new"
    /\ \E s \in Submissions :
          api' = [api EXCEPT ![r].request = s,
                             ![r].pc =
                                 IF s.route = "base" THEN "accepted"
                                 ELSE IF ~validate_grid(s.grid) THEN "rejected"
                                 ELSE IF s.route = "ip" /\ ~int_ok(s.grid) THEN "failed"
                                 ELSE "accepted"]
    /\ UNCHANGED <<kv, workQueue, requeues, foreign, wpc, wmsg, wsol, wrec, settle,
                   shutdown_event>>
    /\ UNCHANGED <<sup, sse, lvars, evars>>

\* generate_problem_id (imported from api.util): an id that check_id_exists
\* reports absent; then the caller of save_problem builds the Problem.
generate_problem_id(r) ==
    /\ api[r].pc = "accepted"
    /\ \E id \in ProblemIds :
          /\ kv[id] = NoRecord
          /\ api' = [api EXCEPT ![r].pc = "created",
                                ![r].problem = Problem(id, Template(api[r].request))]
    /\ UNCHANGED <<kv, workQueue, requeues, foreign, wpc, wmsg, wsol, wrec, settle,
                   shutdown_event>>
    /\ UNCHANGED <<sup, sse, lvars, evars>>

\* save_problem, first await: enqueue_problem(problem) publishes the problem
\* as it is now (status CREATED), or raises and ends the request.
enqueue_problem(r) ==
    /\ api[r].pc = "created"
    /\ \/ /\ workQueue' = Append(workQueue,
                                 [redelivered |-> FALSE,
                                  body |-> serialize_problem(api[r].problem)])
          /\ api' = [api EXCEPT ![r].pc = "enqueued"]
       \/ /\ api' = [api EXCEPT ![r].pc = "failed"]
          /\ UNCHANGED workQueue
    /\ UNCHANGED <<kv, requeues, foreign, wpc, wmsg, wsol, wrec, settle, shutdown_event>>
    /\ UNCHANGED <<sup, sse, lvars, evars>>

\* save_problem, rest: status = IN_QUEUE, then save_problem_redis(problem)
\* sets the key, or raises.
save_problem_redis(r) ==
    /\ api[r].pc = "enqueued"
    /\ LET p == [api[r].problem EXCEPT !.status = "IN_QUEUE"] IN
       \/ /\ kv' = [kv EXCEPT ![p.problem_id] = serialize_problem(p)]
          /\ api' = [api EXCEPT ![r].pc = "done", ![r].problem = NoMsg]
       \/ /\ api' = [api EXCEPT ![r].pc = "failed", ![r].problem = NoMsg]
          /\ UNCHANGED kv
    /\ UNCHANGED <<workQueue, requeues, foreign, wpc, wmsg, wsol, wrec, settle,
                   shutdown_event>>
    /\ UNCHANGED <<sup, sse, lvars, evars>>

\* Another client of the broker leaves a body on the durable problems queue
\* that is not a packed Problem.
foreign_publish ==
    /\ foreign < MaxForeign
    /\ foreign' = foreign + 1
    /\ workQueue' = Append(workQueue, [redelivered |-> FALSE, body |-> Malformed])
    /\ UNCHANGED <<kv, requeues, api, wpc, wmsg, wsol, wrec, settle, shutdown_event>>
    /\ UNCHANGED <<sup, sse, lvars, evars>>

\* ------------------------------------------------------------- broker
\* basic_ack: the delivery is settled and the message is gone.
basic_ack(w) ==
    /\ settle' = [settle EXCEPT ![w] = Append(@, "ack")]
    /\ wmsg' = [wmsg EXCEPT ![w] = NoMsg]
    /\ UNCHANGED <<workQueue, requeues>>

\* basic_nack(requeue=False): the delivery is settled and the message discarded.
basic_nack_discard(w) ==
    /\ settle' = [settle EXCEPT ![w] = Append(@, "nack")]
    /\ wmsg' = [wmsg EXCEPT ![w] = NoMsg]
    /\ UNCHANGED <<workQueue, requeues>>

\* basic_nack(requeue=True): the delivery is settled and the message goes back
\* to the front of the queue, flagged redelivered.
basic_nack(w) ==
    /\ settle' = [settle EXCEPT ![w] = Append(@, "nack")]
    /\ wmsg' = [wmsg EXCEPT ![w] = NoMsg]
    /\ workQueue' = <<[wmsg[w] EXCEPT !.redelivered = TRUE]>> \o workQueue
    /\ requeues' = requeues + 1

\* A broker without a prefetch limit: the next ready message is pushed to a
\* consuming worker whether or not it still holds an unsettled delivery.
deliver_unlimited(w) ==
    /\ wpc[w] \notin {"new", "stopped", "ended"}
    /\ workQueue /= <<>>
    /\ requeues <= MaxRequeue
    /\ wmsg' = [wmsg EXCEPT ![w] = Head(workQueue)]
    /\ workQueue' = Tail(workQueue)
    /\ settle' = [settle EXCEPT ![w] = <<"deliver">>]
    /\ wpc' = [wpc EXCEPT ![w] = "callback"]
    /\ UNCHANGED <<kv, requeues, api, foreign, wsol, wrec, shutdown_event>>
    /\ UNCHANGED <<sup, sse, lvars, evars>>

\* basic_consume with prefetch_count=1: the broker hands the next ready message
\* to a consuming worker that holds no unsettled delivery; callback starts.
\* (MaxRequeue bounds the requeue/redeliver loop.)
deliver(w) ==
    /\ wpc[w] = "idle"
    /\ workQueue /= <<>>
    /\ requeues <= MaxRequeue
    /\ wmsg' = [wmsg EXCEPT ![w] = Head(workQueue)]
    /\ workQueue' = Tail(workQueue)
    /\ settle' = [settle EXCEPT ![w] = <<"deliver">>]
    /\ wpc' = [wpc EXCEPT ![w] = "callback"]
    /\ UNCHANGED <<kv, requeues, api, foreign, wsol, wrec, shutdown_event>>
    /\ UNCHANGED <<sup, sse, lvars, evars>>

\* ------------------------------------------------------------- Worker
\* A callback that would not look at the shutdown event and go on to solve.
callback_ignores_shutdown(w) ==
    /\ wpc[w] = "callback"
    /\ shutdown_event
    /\ deserialize_ok(wmsg[w].body)
    /\ \E r \in AdapterResults(deserialize_problem(wmsg[w].body)) :
          wsol' = [wsol EXCEPT ![w] =
                      Worker_solve(deserialize_problem(wmsg[w].body), r)]
    /\ wpc' = [wpc EXCEPT ![w] = "store"]
    /\ UNCHANGED <<wmsg, settle, workQueue, requeues>>
    /\ UNCHANGED <<kv, api, foreign, wrec, shutdown_event>>
    /\ UNCHANGED <<sup, sse, lvars, evars>>

\* callback, shutdown branch: nack with requeue, stop_consuming, return.
callback_shutdown(w) ==
    /\ wpc[w] = "callback"
    /\ shutdown_event
    /\ basic_nack(w)
    /\ wpc' = [wpc EXCEPT ![w] = "stopped"]
    /\ UNCHANGED <<kv, api, foreign, wsol, wrec, shutdown_event>>
    /\ UNCHANGED <<sup, sse, lvars, evars>>

\* callback -> _process_message up to the call of _store_solution:
\* _deserialize_problem raises on a malformed body (re-raised, so callback
\* nacks with requeue); otherwise _solve returns a Solution.
process_message(w) ==
    /\ wpc[w] = "callback"
    /\ ~shutdown_event
    /\ IF ~deserialize_ok(wmsg[w].body)
       THEN /\ basic_nack(w)
            /\ wpc' = [wpc EXCEPT ![w] = "idle"]
            /\ UNCHANGED wsol
       ELSE /\ \E r \in AdapterResults(deserialize_problem(wmsg[w].body)) :
                 wsol' = [wsol EXCEPT ![w] =
                             Worker_solve(deserialize_problem(wmsg[w].body), r)]
            /\ wpc' = [wpc EXCEPT ![w] = "store"]
            /\ UNCHANGED <<wmsg, settle, workQueue, requeues>>
    /\ UNCHANGED <<kv, api, foreign, wrec, shutdown_event>>
    /\ UNCHANGED <<sup, sse, lvars, evars>>

\* save_solution_to_redis, client.get(solution.problem_id): raises (callback
\* nacks with requeue), finds nothing (warning only, then callback acks), or
\* returns the stored problem, which gets the solution and the status.
save_solution_get(w) ==
    /\ wpc[w] = "store"
    /\ \/ /\ basic_nack(w)
          /\ wpc' = [wpc EXCEPT ![w] = "idle"]
          /\ wsol' = [wsol EXCEPT ![w] = NoSolution]
          /\ UNCHANGED wrec
       \/ /\ kv[wsol[w].problem_id] = NoRecord
          /\ wpc' = [wpc EXCEPT ![w] = "ack"]
          /\ UNCHANGED <<wmsg, settle, workQueue, requeues, wsol, wrec>>
       \/ /\ kv[wsol[w].problem_id] /= NoRecord
          /\ wrec' = [wrec EXCEPT ![w] =
                        [deserialize_problem(kv[wsol[w].problem_id])
                            EXCEPT !.solution = wsol[w].solution_data,
                                   !.status = wsol[w].status]]
          /\ wpc' = [wpc EXCEPT ![w] = "set"]
          /\ UNCHANGED <<wmsg, settle, workQueue, requeues, wsol>>
    /\ UNCHANGED <<kv, api, foreign, shutdown_event>>
    /\ UNCHANGED <<sup, sse, lvars, evars>>

\* save_solution_to_redis, client.set(solution.problem_id, updated): succeeds,
\* or raises and callback nacks with requeue.
save_solution_set(w) ==
    /\ wpc[w] = "set"
    /\ \/ /\ kv' = [kv EXCEPT ![wsol[w].problem_id] = serialize_problem(wrec[w])]
          /\ wpc' = [wpc EXCEPT ![w] = "ack"]
          /\ wrec' = [wrec EXCEPT ![w] = NoRecord]
          /\ UNCHANGED <<wmsg, settle, workQueue, requeues, wsol>>
       \/ /\ basic_nack(w)
          /\ wpc' = [wpc EXCEPT ![w] = "idle"]
          /\ wsol' = [wsol EXCEPT ![w] = NoSolution]
          /\ wrec' = [wrec EXCEPT ![w] = NoRecord]
          /\ UNCHANGED kv
    /\ UNCHANGED <<api, foreign, shutdown_event>>
    /\ UNCHANGED <<sup, sse, lvars, evars>>

\* callback, after _process_message returned: basic_ack.
callback_ack(w) ==
    /\ wpc[w] = "ack"
    /\ basic_ack(w)
    /\ wpc' = [wpc EXCEPT ![w] = "idle"]
    /\ wsol' = [wsol EXCEPT ![w] = NoSolution]
    /\ UNCHANGED <<kv, api, foreign, wrec, shutdown_event>>
    /\ UNCHANGED <<sup, sse, lvars, evars>>

\* ------------------------------------------------------------- supervisor
Alive(w) == wpc[w] \notin {"new", "stopped", "ended"}

\* The worker process ends with its channel open: KeyboardInterrupt in run
\* (SIGINT reaching the child), terminate(), or an exception leaving run.
\* _cleanup closes the connection and the broker requeues the unsettled
\* delivery.
process_ends(w) ==
    /\ wpc' = [wpc EXCEPT ![w] = "ended"]
    /\ wmsg' = [wmsg EXCEPT ![w] = NoMsg]
    /\ wsol' = [wsol EXCEPT ![w] = NoSolution]
    /\ wrec' = [wrec EXCEPT ![w] = NoRecord]
    /\ workQueue' = IF wmsg[w] = NoMsg THEN workQueue
                    ELSE <<[wmsg[w] EXCEPT !.redelivered = TRUE]>> \o workQueue

\* SolverService.start: the signal handlers are registered and every worker
\* process is spawned; main then joins them.
SolverService_start ==
    /\ sup = "init"
    /\ sup' = "join"
    /\ wpc' = [w \in Workers |-> "idle"]
    /\ UNCHANGED <<kv, workQueue, requeues, api, foreign, wmsg, wsol, wrec, settle,
                   shutdown_event>>
    /\ UNCHANGED <<sse, lvars, evars>>

\* start raises inside the spawn loop, after some workers were started: main
\* calls stop(), which first sets the event.
start_raises ==
    /\ sup = "init"
    /\ sup' = "stop"
    /\ \E k \in 0 .. (NumWorkers - 1) :
          wpc' = [w \in Workers |-> IF w <= k THEN "idle" ELSE "new"]
    /\ shutdown_event' = TRUE
    /\ UNCHANGED <<kv, workQueue, requeues, api, foreign, wmsg, wsol, wrec, settle>>
    /\ UNCHANGED <<sse, lvars, evars>>

\* stop: join(timeout=10) ran out with the worker alive: terminate(), join().
stop_terminate(w) ==
    /\ sup = "stop"
    /\ Alive(w)
    /\ process_ends(w)
    /\ UNCHANGED <<kv, requeues, api, foreign, settle, shutdown_event, sup>>
    /\ UNCHANGED <<sse, lvars, evars>>

\* stop returns once every started worker was joined.
stop_return ==
    /\ sup = "stop"
    /\ \A w \in Workers : ~Alive(w)
    /\ sup' = "exited"
    /\ UNCHANGED <<kv, workQueue, requeues, api, foreign, wpc, wmsg, wsol, wrec, settle,
                   shutdown_event>>
    /\ UNCHANGED <<sse, lvars, evars>>

\* start: the untimed join() of every worker has returned.
start_return ==
    /\ sup = "join"
    /\ \A w \in Workers : ~Alive(w)
    /\ sup' = "exited"
    /\ UNCHANGED <<kv, workQueue, requeues, api, foreign, wpc, wmsg, wsol, wrec, settle,
                   shutdown_event>>
    /\ UNCHANGED <<sse, lvars, evars>>

\* Worker.run, except KeyboardInterrupt: SIGINT reaches the worker process.
worker_interrupt(w) ==
    /\ Alive(w)
    /\ process_ends(w)
    /\ UNCHANGED <<kv, requeues, api, foreign, settle, shutdown_event, sup>>
    /\ UNCHANGED <<sse, lvars, evars>>

\* SolverService._signal_handler: SIGINT / SIGTERM sets the shared event;
\* main goes on joining.
signal_handler ==
    /\ sup = "join"
    /\ ~shutdown_event
    /\ shutdown_event' = TRUE
    /\ UNCHANGED <<kv, workQueue, requeues, api, foreign, wpc, wmsg, wsol, wrec, settle>>
    /\ UNCHANGED <<sup, sse, lvars, evars>>

\* ------------------------------------------------------ /problems/subscribe
\* ttl of subscribe, ttl_seconds of event_generator
DefaultTtl == 300

\* Whether problem id has a terminal status in Redis.
HasTerminalStatus(id) == kv[id] /= NoRecord /\ kv[id].status \in TerminalStatus

\* event_generator up to its first yield: subscribe_to_problem_channel
\* subscribes and, in its finally, unsubscribes and closes the PubSub it then
\* returns (or raises, and the response ends without a frame); the connected
\* frame follows.  early records whether the problem had no terminal status
\* yet when the stream was opened.
event_generator_connect ==
    /\ sse.pc = "new"
    /\ \E id \in ProblemIds :
          \/ sse' = [pc |-> "connected", problem_id |-> id,
                     early |-> ~HasTerminalStatus(id),
                     frames |-> <<[type |-> "connected", problem_id |-> id,
                                   ttl |-> DefaultTtl]>>]
          \/ sse' = [pc |-> "unavailable", problem_id |-> id, early |-> FALSE,
                     frames |-> <<>>]
    /\ UNCHANGED <<kv, workQueue, requeues, api, foreign, wpc, wmsg, wsol, wrec, settle,
                   shutdown_event, sup>>
    /\ UNCHANGED <<lvars, evars>>

\* event_generator, rest: receive_message calls get_message on the PubSub
\* that was closed and is subscribed to nothing, and nothing publishes to the
\* channel: get_message raises (the response breaks off), or returns None and
\* the timeout frame is sent before unsunscribe_and_close_pubsub.
event_generator_receive ==
    /\ sse.pc = "connected"
    /\ \/ sse' = [sse EXCEPT !.pc = "error"]
       \/ sse' = [sse EXCEPT !.pc = "closed",
                             !.frames = Append(@, [type |-> "timeout", ttl |-> DefaultTtl])]
    /\ UNCHANGED <<kv, workQueue, requeues, api, foreign, wpc, wmsg, wsol, wrec, settle,
                   shutdown_event, sup>>
    /\ UNCHANGED <<lvars, evars>>

Next ==
    \/ \E r \in Requests : post_sudoku(r)
    \/ \E r \in Requests : generate_problem_id(r)
    \/ \E r \in Requests : enqueue_problem(r)
    \/ \E r \in Requests : save_problem_redis(r)
    \/ foreign_publish
    \/ \E w \in Workers : deliver(w)
    \/ \E w \in Workers : callback_shutdown(w)
    \/ \E w \in Workers : process_message(w)
    \/ \E w \in Workers : save_solution_get(w)
    \/ \E w \in Workers : save_solution_set(w)
    \/ \E w \in Workers : callback_ack(w)
    \/ signal_handler
    \/ SolverService_start
    \/ start_raises
    \/ \E w \in Workers : stop_terminate(w)
    \/ stop_return
    \/ start_return
    \/ \E w \in Workers : worker_interrupt(w)
    \/ event_generator_connect
    \/ event_generator_receive

\* =================================================== the puzzle pipeline
\* hset(key, mapping): sets the given fields, creating the hash when absent.
hset(key, st, out) ==
    hkv' = [hkv EXCEPT ![key] =
               [status |-> st, output |-> out,
                hasInput |-> IF @ = NoRecord THEN FALSE ELSE @.hasInput]]

\* PuzzleService.create_puzzle: uuid4().hex, re-rolled while exists() is true.
create_puzzle_id(q) ==
    /\ papi[q].pc = "new"
    /\ \E id \in PuzzleIds :
          /\ hkv[id] = NoRecord
          /\ papi' = [papi EXCEPT ![q] = [pc |-> "create", puzzle_id |-> id]]
    /\ UNCHANGED <<hkv, puzzleQueue, resultQueue, connections, pforeign, cpc, cmsg,
                   csettle, lpc, lsettle, tasks, subscribers, squeue, spc>>
    /\ UNCHANGED <<pvars, evars>>

\* PuzzleService.create_puzzle -> RedisRepository.create_puzzle: the record is
\* written with status CREATED and no output, or the write raises (HTTP 500).
create_puzzle_hset(q) ==
    /\ papi[q].pc = "create"
    /\ \/ /\ hkv' = [hkv EXCEPT ![papi[q].puzzle_id] =
                        [status |-> "CREATED", output |-> Null, hasInput |-> TRUE]]
          /\ papi' = [papi EXCEPT ![q].pc = "publish"]
       \/ /\ papi' = [papi EXCEPT ![q] = [pc |-> "failed", puzzle_id |-> 0]]
          /\ UNCHANGED hkv
    /\ UNCHANGED <<puzzleQueue, resultQueue, connections, pforeign, cpc, cmsg, csettle,
                   lpc, lsettle, tasks, subscribers, squeue, spc>>
    /\ UNCHANGED <<pvars, evars>>

\* A publish_puzzle whose pool would raise queue.Empty when no connection is
\* free (get_nowait) instead of waiting.
publish_puzzle_nowait(q) ==
    /\ papi[q].pc = "publish"
    /\ \/ /\ connections > 0
          /\ puzzleQueue' = Append(puzzleQueue,
                [redelivered |-> FALSE,
                 body |-> [kind |-> "json", puzzle_id |-> papi[q].puzzle_id]])
          /\ papi' = [papi EXCEPT ![q] = [pc |-> "done", puzzle_id |-> 0]]
          /\ UNCHANGED connections
       \/ /\ connections > 0
          /\ connections' = connections - 1
          /\ papi' = [papi EXCEPT ![q] = [pc |-> "failed", puzzle_id |-> 0]]
          /\ UNCHANGED puzzleQueue
       \/ /\ connections = 0
          /\ papi' = [papi EXCEPT ![q] = [pc |-> "failed", puzzle_id |-> 0]]
          /\ UNCHANGED <<puzzleQueue, connections>>
    /\ UNCHANGED <<hkv, resultQueue, pforeign, cpc, cmsg, csettle, lpc, lsettle, tasks,
                   subscribers, squeue, spc>>
    /\ UNCHANGED <<pvars, evars>>

\* RabbitMQRepository.publish_puzzle: takes a pooled connection (blocking while
\* none is free), publishes and puts the connection back; when the publish
\* raises the connection is not put back.
publish_puzzle(q) ==
    /\ papi[q].pc = "publish"
    /\ connections > 0
    /\ \/ /\ puzzleQueue' = Append(puzzleQueue,
                [redelivered |-> FALSE,
                 body |-> [kind |-> "json", puzzle_id |-> papi[q].puzzle_id]])
          /\ papi' = [papi EXCEPT ![q] = [pc |-> "done", puzzle_id |-> 0]]
          /\ UNCHANGED connections
       \/ /\ connections' = connections - 1
          /\ papi' = [papi EXCEPT ![q] = [pc |-> "failed", puzzle_id |-> 0]]
          /\ UNCHANGED puzzleQueue
    /\ UNCHANGED <<hkv, resultQueue, pforeign, cpc, cmsg, csettle, lpc, lsettle, tasks,
                   subscribers, squeue, spc>>
    /\ UNCHANGED <<pvars, evars>>

\* Another client of the broker leaves a body on the durable puzzle queue: not
\* JSON, or JSON naming a puzzle_id that Redis does not hold.
puzzle_foreign_publish ==
    /\ pforeign < MaxForeign
    /\ pforeign' = pforeign + 1
    /\ \E b \in {Malformed, [kind |-> "json", puzzle_id |-> UnknownId]} :
          puzzleQueue' = Append(puzzleQueue, [redelivered |-> FALSE, body |-> b])
    /\ UNCHANGED <<hkv, resultQueue, connections, papi, cpc, cmsg, csettle, lpc, lsettle,
                   tasks, subscribers, squeue, spc>>
    /\ UNCHANGED <<pvars, evars>>

\* basic_consume(auto_ack=False) with prefetch_count=1: the broker hands the
\* next ready message to a consumer holding no unsettled delivery.
puzzle_deliver(c) ==
    /\ cpc[c] = "idle"
    /\ puzzleQueue /= <<>>
    /\ cmsg' = [cmsg EXCEPT ![c] = Head(puzzleQueue)]
    /\ puzzleQueue' = Tail(puzzleQueue)
    /\ csettle' = [csettle EXCEPT ![c] = <<"deliver">>]
    /\ cpc' = [cpc EXCEPT ![c] = "on_message"]
    /\ UNCHANGED <<hkv, resultQueue, connections, papi, pforeign, lpc, lsettle, tasks,
                   subscribers, squeue, spc>>
    /\ UNCHANGED <<pvars, evars>>

\* ch.basic_ack in _on_message
consumer_ack(c) ==
    /\ csettle' = [csettle EXCEPT ![c] = Append(@, "ack")]
    /\ cmsg' = [cmsg EXCEPT ![c] = NoMsg]

\* An exception leaves _on_message: nothing in puzzle_consumer catches it, the
\* process ends with the delivery unsettled, and the broker requeues the
\* message of the lost connection.
consumer_raise(c) ==
    /\ cpc' = [cpc EXCEPT ![c] = "dead"]
    /\ cmsg' = [cmsg EXCEPT ![c] = NoMsg]
    /\ puzzleQueue' = <<[cmsg[c] EXCEPT !.redelivered = TRUE]>> \o puzzleQueue
    /\ UNCHANGED csettle

\* _on_message up to fetch_puzzle: a body that is not JSON or has no puzzle_id
\* is acked and dropped; hgetall raises, or returns the hash (empty when absent).
on_message_fetch(c) ==
    /\ cpc[c] = "on_message"
    /\ IF cmsg[c].body.kind /= "json"
       THEN /\ consumer_ack(c)
            /\ cpc' = [cpc EXCEPT ![c] = "idle"]
            /\ UNCHANGED puzzleQueue
       ELSE \/ consumer_raise(c)
            \/ /\ cpc' = [cpc EXCEPT ![c] =
                            IF hkv[cmsg[c].body.puzzle_id] = NoRecord
                            THEN "notfound" ELSE "progress"]
               /\ UNCHANGED <<cmsg, csettle, puzzleQueue>>
    /\ UNCHANGED <<hkv, resultQueue, connections, papi, pforeign, lpc, lsettle, tasks,
                   subscribers, squeue, spc>>
    /\ UNCHANGED <<pvars, evars>>

\* _on_message, puzzle not found: store_result(FAILED, "Puzzle not found"),
\* basic_ack, return.
on_message_notfound(c) ==
    /\ cpc[c] = "notfound"
    /\ \/ /\ hset(cmsg[c].body.puzzle_id, "FAILED", "Puzzle not found")
          /\ consumer_ack(c)
          /\ cpc' = [cpc EXCEPT ![c] = "idle"]
          /\ UNCHANGED puzzleQueue
       \/ /\ consumer_raise(c)
          /\ UNCHANGED hkv
    /\ UNCHANGED <<resultQueue, connections, papi, pforeign, lpc, lsettle, tasks,
                   subscribers, squeue, spc>>
    /\ UNCHANGED <<pvars, evars>>

\* _on_message: store_result(puzzle_id, IN_PROGRESS, None)
on_message_progress(c) ==
    /\ cpc[c] = "progress"
    /\ \/ /\ hset(cmsg[c].body.puzzle_id, "IN_PROGRESS", Null)
          /\ cpc' = [cpc EXCEPT ![c] = "solve"]
          /\ UNCHANGED <<cmsg, csettle, puzzleQueue>>
       \/ /\ consumer_raise(c)
          /\ UNCHANGED hkv
    /\ UNCHANGED <<resultQueue, connections, papi, pforeign, lpc, lsettle, tasks,
                   subscribers, squeue, spc>>
    /\ UNCHANGED <<pvars, evars>>

\* solve_puzzle returns the puzzle's input; final_status is SOLVED.
solve_puzzle_output == "input"

\* _on_message: solve_puzzle, then store_result(puzzle_id, final_status, output)
on_message_store(c) ==
    /\ cpc[c] = "solve"
    /\ \/ /\ hset(cmsg[c].body.puzzle_id, "SOLVED", solve_puzzle_output)
          /\ cpc' = [cpc EXCEPT ![c] = "publish"]
          /\ UNCHANGED <<cmsg, csettle, puzzleQueue>>
       \/ /\ consumer_raise(c)
          /\ UNCHANGED hkv
    /\ UNCHANGED <<resultQueue, connections, papi, pforeign, lpc, lsettle, tasks,
                   subscribers, squeue, spc>>
    /\ UNCHANGED <<pvars, evars>>

\* _on_message: basic_publish of {puzzle_id, status, output} to the result queue
on_message_publish(c) ==
    /\ cpc[c] = "publish"
    /\ \/ /\ resultQueue' = Append(resultQueue,
                [puzzle_id |-> cmsg[c].body.puzzle_id, status |-> "SOLVED",
                 output |-> solve_puzzle_output])
          /\ cpc' = [cpc EXCEPT ![c] = "ack"]
          /\ UNCHANGED <<cmsg, csettle, puzzleQueue>>
       \/ /\ consumer_raise(c)
          /\ UNCHANGED resultQueue
    /\ UNCHANGED <<hkv, connections, papi, pforeign, lpc, lsettle, tasks, subscribers,
                   squeue, spc>>
    /\ UNCHANGED <<pvars, evars>>

\* _on_message: the final basic_ack
on_message_ack(c) ==
    /\ cpc[c] = "ack"
    /\ consumer_ack(c)
    /\ cpc' = [cpc EXCEPT ![c] = "idle"]
    /\ UNCHANGED <<hkv, puzzleQueue, resultQueue, connections, papi, pforeign, lpc,
                   lsettle, tasks, subscribers, squeue, spc>>
    /\ UNCHANGED <<pvars, evars>>

\* ------------------------------------------------------- result listener
\* consume_results on the listener thread: takes a pooled connection and
\* keeps it while consuming.
consume_results_start ==
    /\ lpc = "init"
    /\ connections > 0
    /\ connections' = connections - 1
    /\ lpc' = "consuming"
    /\ UNCHANGED <<hkv, puzzleQueue, resultQueue, papi, pforeign, cpc, cmsg, csettle,
                   lsettle, tasks, subscribers, squeue, spc>>
    /\ UNCHANGED <<pvars, evars>>

\* consume_results._on_message: callback(payload) is _handle, which only
\* schedules process_result_message on the event loop; finally: basic_ack.
results_on_message ==
    /\ lpc = "consuming"
    /\ resultQueue /= <<>>
    /\ tasks' = Append(tasks, [payload |-> Head(resultQueue), pc |-> "upsert"])
    /\ lsettle' = <<"deliver", "ack">>
    /\ resultQueue' = Tail(resultQueue)
    /\ UNCHANGED <<hkv, puzzleQueue, connections, papi, pforeign, cpc, cmsg, csettle,
                   lpc, subscribers, squeue, spc>>
    /\ UNCHANGED <<pvars, evars>>

RemoveAt(seq, i) == SubSeq(seq, 1, i - 1) \o SubSeq(seq, i + 1, Len(seq))

\* process_result_message, first await: upsert_fields(puzzle_id, {status,
\* output}); when it raises the task ends.
process_result_upsert(i) ==
    /\ i \in DOMAIN tasks
    /\ tasks[i].pc = "upsert"
    /\ \/ /\ hset(tasks[i].payload.puzzle_id, tasks[i].payload.status,
                  tasks[i].payload.output)
          /\ tasks' = [tasks EXCEPT ![i].pc = "publish"]
       \/ /\ tasks' = RemoveAt(tasks, i)
          /\ UNCHANGED hkv
    /\ UNCHANGED <<puzzleQueue, resultQueue, connections, papi, pforeign, cpc, cmsg,
                   csettle, lpc, lsettle, subscribers, squeue, spc>>
    /\ UNCHANGED <<pvars, evars>>

\* ResultStreamer.publish: put_nowait on every queue subscribed to puzzle_id
streamer_publish(puzzle_id, message) ==
    LET queues == IF puzzle_id \in DOMAIN subscribers THEN subscribers[puzzle_id] ELSE {}
    IN squeue' = [s \in Streams |->
                     IF s \in queues THEN Append(squeue[s], message) ELSE squeue[s]]

\* A process_result_message that would publish without awaiting upsert_fields.
publish_without_upsert(i) ==
    /\ i \in DOMAIN tasks
    /\ streamer_publish(tasks[i].payload.puzzle_id, tasks[i].payload)
    /\ tasks' = RemoveAt(tasks, i)
    /\ UNCHANGED <<hkv, puzzleQueue, resultQueue, connections, papi, pforeign, cpc, cmsg,
                   csettle, lpc, lsettle, subscribers, spc>>
    /\ UNCHANGED <<pvars, evars>>

\* process_result_message, rest: streamer.publish(puzzle_id, payload)
process_result_publish(i) ==
    /\ i \in DOMAIN tasks
    /\ tasks[i].pc = "publish"
    /\ streamer_publish(tasks[i].payload.puzzle_id, tasks[i].payload)
    /\ tasks' = RemoveAt(tasks, i)
    /\ UNCHANGED <<hkv, puzzleQueue, resultQueue, connections, papi, pforeign, cpc, cmsg,
                   csettle, lpc, lsettle, subscribers, spc>>
    /\ UNCHANGED <<pvars, evars>>

\* ---------------------------------------------------------- ResultStreamer
\* stream(puzzle_id): a new queue is added to the set of puzzle_id.
stream_open(s, id) ==
    /\ spc[s].pc = "new"
    /\ spc' = [spc EXCEPT ![s] = [pc |-> "open", puzzle_id |-> id]]
    /\ subscribers' =
          [k \in DOMAIN subscribers \cup {id} |->
              IF k = id
              THEN (IF id \in DOMAIN subscribers THEN subscribers[id] ELSE {}) \cup {s}
              ELSE subscribers[k]]
    /\ UNCHANGED <<hkv, puzzleQueue, resultQueue, connections, papi, pforeign, cpc, cmsg,
                   csettle, lpc, lsettle, tasks, squeue>>
    /\ UNCHANGED <<pvars, evars>>

\* A stream that would yield the newest payload of its queue first.
stream_get_newest(s) ==
    /\ spc[s].pc = "open"
    /\ squeue[s] /= <<>>
    /\ squeue' = [squeue EXCEPT ![s] = SubSeq(@, 1, Len(@) - 1)]
    /\ UNCHANGED <<hkv, puzzleQueue, resultQueue, connections, papi, pforeign, cpc, cmsg,
                   csettle, lpc, lsettle, tasks, subscribers, spc>>
    /\ UNCHANGED <<pvars, evars>>

\* stream: data = await queue.get(); yield data
stream_get(s) ==
    /\ spc[s].pc = "open"
    /\ squeue[s] /= <<>>
    /\ squeue' = [squeue EXCEPT ![s] = Tail(@)]
    /\ UNCHANGED <<hkv, puzzleQueue, resultQueue, connections, papi, pforeign, cpc, cmsg,
                   csettle, lpc, lsettle, tasks, subscribers, spc>>
    /\ UNCHANGED <<pvars, evars>>

\* A close that would drop the whole entry of its puzzle_id.
stream_close_entry(s) ==
    /\ spc[s].pc = "open"
    /\ subscribers' = [k \in DOMAIN subscribers \ {spc[s].puzzle_id} |-> subscribers[k]]
    /\ spc' = [spc EXCEPT ![s] = [pc |-> "closed", puzzle_id |-> 0]]
    /\ squeue' = [squeue EXCEPT ![s] = <<>>]
    /\ UNCHANGED <<hkv, puzzleQueue, resultQueue, connections, papi, pforeign, cpc, cmsg,
                   csettle, lpc, lsettle, tasks>>
    /\ UNCHANGED <<pvars, evars>>

\* A close that would discard its queue and never prune the key.
stream_close_keep_key(s) ==
    /\ spc[s].pc = "open"
    /\ subscribers' = [subscribers EXCEPT ![spc[s].puzzle_id] = @ \ {s}]
    /\ spc' = [spc EXCEPT ![s] = [pc |-> "closed", puzzle_id |-> 0]]
    /\ squeue' = [squeue EXCEPT ![s] = <<>>]
    /\ UNCHANGED <<hkv, puzzleQueue, resultQueue, connections, papi, pforeign, cpc, cmsg,
                   csettle, lpc, lsettle, tasks>>
    /\ UNCHANGED <<pvars, evars>>

\* stream, finally: discard the queue; pop the key when its set is empty.
stream_close(s) ==
    /\ spc[s].pc = "open"
    /\ LET id == spc[s].puzzle_id
           rest == subscribers[id] \ {s}
       IN subscribers' =
             [k \in (IF rest = {} THEN DOMAIN subscribers \ {id} ELSE DOMAIN subscribers) |->
                 IF k = id THEN rest ELSE subscribers[k]]
    /\ spc' = [spc EXCEPT ![s] = [pc |-> "closed", puzzle_id |-> 0]]
    /\ squeue' = [squeue EXCEPT ![s] = <<>>]
    /\ UNCHANGED <<hkv, puzzleQueue, resultQueue, connections, papi, pforeign, cpc, cmsg,
                   csettle, lpc, lsettle, tasks>>
    /\ UNCHANGED <<pvars, evars>>

\* ------------------------------------------------- ResultStreamer alone
\* The payloads a caller can hand to publish for puzzle_id.
StreamPayloads(id) ==
    {[puzzle_id |-> id, status |-> st, output |-> solve_puzzle_output] :
        st \in {"SOLVED", "FAILED"}}

\* A publish that would put to every queue ever created, subscribed or not.
publish_to_stale(id, m) ==
    /\ \A s \in Streams : Len(squeue[s]) < MaxQueue
    /\ squeue' = [s \in Streams |-> Append(squeue[s], m)]
    /\ UNCHANGED <<hkv, puzzleQueue, resultQueue, connections, papi, pforeign, cpc, cmsg,
                   csettle, lpc, lsettle, tasks, subscribers, spc>>
    /\ UNCHANGED <<pvars, evars>>

\* A publish that would index the defaultdict (self._subscribers[puzzle_id])
\* and so create an empty entry for a puzzle_id nobody subscribed to.
publish_creating_entry(id, m) ==
    /\ \A s \in Streams : Len(squeue[s]) < MaxQueue
    /\ streamer_publish(id, m)
    /\ subscribers' = [k \in DOMAIN subscribers \cup {id} |->
                          IF k \in DOMAIN subscribers THEN subscribers[k] ELSE {}]
    /\ UNCHANGED <<hkv, puzzleQueue, resultQueue, connections, papi, pforeign, cpc, cmsg,
                   csettle, lpc, lsettle, tasks, spc>>
    /\ UNCHANGED <<pvars, evars>>

\* ResultStreamer.publish called directly.  (MaxQueue bounds how far the
\* queues are filled.)
ResultStreamer_publish(id, m) ==
    /\ \A s \in Streams : Len(squeue[s]) < MaxQueue
    /\ streamer_publish(id, m)
    /\ UNCHANGED <<hkv, puzzleQueue, resultQueue, connections, papi, pforeign, cpc, cmsg,
                   csettle, lpc, lsettle, tasks, subscribers, spc>>
    /\ UNCHANGED <<pvars, evars>>

StreamerNext ==
    \/ \E s \in Streams, id \in PuzzleIds : stream_open(s, id)
    \/ \E s \in Streams : stream_get(s)
    \/ \E s \in Streams : stream_close(s)
    \/ \E id \in PuzzleIds : \E m \in StreamPayloads(id) : ResultStreamer_publish(id, m)

LegacyNext ==
    \/ \E q \in PuzzleRequests : create_puzzle_id(q)
    \/ \E q \in PuzzleRequests : create_puzzle_hset(q)
    \/ \E q \in PuzzleRequests : publish_puzzle(q)
    \/ puzzle_foreign_publish
    \/ \E c \in Consumers : puzzle_deliver(c)
    \/ \E c \in Consumers : on_message_fetch(c)
    \/ \E c \in Consumers : on_message_notfound(c)
    \/ \E c \in Consumers : on_message_progress(c)
    \/ \E c \in Consumers : on_message_store(c)
    \/ \E c \in Consumers : on_message_publish(c)
    \/ \E c \in Consumers : on_message_ack(c)
    \/ consume_results_start
    \/ results_on_message
    \/ \E i \in 1..Len(tasks) : process_result_upsert(i)
    \/ \E i \in 1..Len(tasks) : process_result_publish(i)
    \/ \E s \in Streams, id \in PuzzleIds : stream_open(s, id)
    \/ \E s \in Streams : stream_get(s)
    \/ \E s \in Streams : stream_close(s)

Spec == Init /\ [][Next]_vars

LegacySpec == Init /\ [][LegacyNext]_vars

StreamerSpec == Init /\ [][StreamerNext]_vars

\* ================================================================ claims
\* Bodies of the problems queue that decode to a Problem: ready, or delivered
\* to a worker and not yet settled.
ReadyBodies == {workQueue[i].body : i \in DOMAIN workQueue}
HeldBodies == {wmsg[w].body : w \in {x \in Workers : wmsg[x] /= NoMsg}}
WorkBodies == {b \in ReadyBodies \cup HeldBodies : deserialize_ok(b)}

\* C1: the KV write of a Problem precedes the publish of its work message:
\* every work message, ready in the broker or received by a worker, names a
\* problem_id whose record already exists in KV.
C1_RecordBeforeWorkMessage ==
    \A b \in WorkBodies : kv[b.problem_id] /= NoRecord

\* C2: once a record has a terminal status, no step changes that status
\* (puzzle pipeline: consumer, redelivery, result listener, API).
C2_TerminalStatusNeverChanges ==
    [][\A id \in HashKeys :
          (hkv[id] /= NoRecord /\ hkv[id].status \in TerminalStatus)
             => (hkv'[id] /= NoRecord /\ hkv'[id].status = hkv[id].status)]_vars

\* The lattice CREATED -> IN_QUEUE -> IN_PROGRESS -> terminal.
LatticeEdges ==
    {<<"CREATED", "IN_QUEUE">>, <<"IN_QUEUE", "IN_PROGRESS">>}
       \cup {<<"IN_PROGRESS", t>> : t \in TerminalStatus}

\* C3: every change of a problem's status in KV is one edge of the lattice:
\* no state is skipped and none goes backward.
C3_StatusFollowsLattice ==
    [][\A id \in ProblemIds :
          (kv[id] /= NoRecord /\ kv'[id] /= NoRecord /\ kv'[id].status /= kv[id].status)
             => <<kv[id].status, kv'[id].status>> \in LatticeEdges]_vars

\* A delivery whose callback is over was settled exactly once: its log holds
\* the delivery and one basic_ack or basic_nack.
SettledOnce(log) == log = <<>> \/ (Len(log) = 2 /\ log[2] \in {"ack", "nack"})

\* C4: every message delivered to a consumer callback (Worker, puzzle_consumer,
\* result listener) is acked or nacked exactly once by that consumer, on every
\* path, the raising ones included.
C4_SettledExactlyOnce ==
    /\ \A w \in Workers : wpc[w] \in {"idle", "stopped"} => SettledOnce(settle[w])
    /\ \A c \in Consumers : cpc[c] \in {"idle", "dead"} => SettledOnce(csettle[c])
    /\ SettledOnce(lsettle)

\* C5: the Worker acks a work message only after the terminal status is in the
\* problem's KV record and a result message for the problem has been published
\* to the result queue.
C5_AckAfterPersistAndPublish ==
    [][\A w \in Workers :
          (wpc[w] = "ack" /\ wpc'[w] = "idle")
             => /\ kv[wsol[w].problem_id] /= NoRecord
                /\ kv[wsol[w].problem_id].status \in TerminalStatus
                /\ \E i \in DOMAIN resultQueue :
                      resultQueue[i].puzzle_id = wsol[w].problem_id]_vars

\* C6: a work message whose body cannot be decoded is acked and dropped by the
\* Worker, never requeued: when callback returns from such a message (no
\* shutdown requested), the delivery was settled by an ack and the queue got
\* nothing back.
C6_MalformedNeverRequeued ==
    [][\A w \in Workers :
          (/\ wpc[w] = "callback"
           /\ ~shutdown_event
           /\ ~deserialize_ok(wmsg[w].body)
           /\ wpc'[w] = "idle")
             => /\ settle'[w] = <<"deliver", "ack">>
                /\ workQueue' = workQueue]_vars

Registered(t, n) == t \in ProblemModelMapKeys /\ n \in ModelNames(t)

\* C7: for every (problem_type, problem_name) that is not registered, the
\* Solution the Worker produces has status UNSUPPORTED.
C7_UnregisteredIsUnsupported ==
    \A w \in Workers :
        (wsol[w] /= NoSolution
            /\ ~Registered(wmsg[w].body.problem_type, wmsg[w].body.problem_name))
           => wsol[w].status = "UNSUPPORTED"

\* What the solver adapter reported for the Solution the worker holds: the
\* "status" of the adapter's dict, which write_back_solution carries over.
AdapterStatus(w) ==
    IF wsol[w] /= NoSolution /\ wsol[w].solution_data.kind = "grid"
    THEN wsol[w].solution_data.status ELSE "none"

\* The step in which worker w's client.set succeeds.
Persists(w) == wpc[w] = "set" /\ wpc'[w] = "ack"

\* C8: when the adapter reports the instance unsolvable, the Worker persists
\* status UNSOLVABLE and a null solution.
C8_UnsolvablePersisted ==
    [][\A w \in Workers :
          (Persists(w) /\ AdapterStatus(w) = "unsolvable")
             => /\ kv'[wsol[w].problem_id].status = "UNSOLVABLE"
                /\ kv'[wsol[w].problem_id].solution = Null]_vars

\* C9: when the adapter returns status = error with isSolved = false, the
\* Worker persists status FAILED.
C9_ErrorPersistedAsFailed ==
    [][\A w \in Workers :
          (Persists(w) /\ AdapterStatus(w) = "error")
             => kv'[wsol[w].problem_id].status = "FAILED"]_vars

\* C10: every Problem record in KV has a non-null solution iff its status is
\* SOLVED.
C10_SolutionIffSolved ==
    \A id \in ProblemIds :
        kv[id] /= NoRecord => (kv[id].solution /= Null <=> kv[id].status = "SOLVED")

\* The grid a stored Sudoku record carries as its solution keeps every clue
\* of the grid that was submitted.
PreservesClues(rec) ==
    \A i \in Rows, j \in Rows :
        Cell(rec.grid, i, j) /= 0
           => Cell(rec.solution.grid, i, j) = Cell(rec.grid, i, j)

\* C11: for every Sudoku problem whose persisted status is SOLVED, the
\* persisted grid has at each nonzero clue cell of the submitted grid exactly
\* that clue.
C11_SolvedGridKeepsClues ==
    \A id \in ProblemIds :
        (kv[id] /= NoRecord /\ kv[id].status = "SOLVED" /\ kv[id].grid /= Null)
           => (kv[id].solution /= Null /\ kv[id].solution.kind = "grid"
               /\ PreservesClues(kv[id]))

\* No work message for problem id is left: none ready in the broker, none
\* held by a worker, and no save_problem call still running.
NoWorkLeft(id) ==
    /\ \A b \in WorkBodies : b.problem_id /= id
    /\ \A r \in Requests : api[r].pc \in {"new", "done", "failed"}

\* C12: every successfully submitted Sudoku of a registered (type, name) pair
\* eventually has a terminal status in KV, with a live worker and no KV or
\* broker failure, whatever the interleaving of submit and worker steps.
\* Stated on the runs' ends: once no work is left for such a problem (nothing
\* can write its record any more), no call has failed and a worker is alive,
\* its status is terminal.
C12_SubmittedBecomesTerminal ==
    \A id \in ProblemIds :
        (/\ kv[id] /= NoRecord
         /\ Registered(kv[id].problem_type, kv[id].problem_name)
         /\ kv[id].grid /= Null
         /\ NoWorkLeft(id)
         /\ requeues = 0
         /\ ~shutdown_event
         /\ \E w \in Workers : Alive(w))
           => kv[id].status \in TerminalStatus

\* C13: the result listener acks a result message only after upsert_fields and
\* the streamer publish of process_result_message have both succeeded for it:
\* at the step that acks a delivery, no process_result_message of its payload
\* is still waiting for its upsert or its publish.
C13_AckAfterUpsertAndStream ==
    [][(Len(resultQueue') < Len(resultQueue) /\ lsettle' = <<"deliver", "ack">>)
          => \A i \in DOMAIN tasks' :
                tasks'[i].payload /= Head(resultQueue)]_vars


\* C14: the KV upsert of a result completes before its payload is published
\* to subscribers: whenever a stream queue receives a payload, the publishing
\* process_result_message is past its upsert and the hash of that puzzle_id
\* exists.
C14_UpsertBeforePublish ==
    [][\A s \in Streams :
          Len(squeue'[s]) > Len(squeue[s])
             => LET m == squeue'[s][Len(squeue'[s])]
                IN /\ \E i \in DOMAIN tasks :
                         /\ tasks[i].payload = m
                         /\ tasks[i].pc = "publish"
                         /\ tasks' = RemoveAt(tasks, i)
                   /\ hkv[m.puzzle_id] /= NoRecord]_vars

C14_Witness ==
    \E s \in Streams :
        /\ squeue[s] /= <<>>
        /\ hkv[Head(squeue[s]).puzzle_id] /= NoRecord


\* C15: no work message is lost by a worker shutdown: at the step where a
\* worker exits (shutdown branch of callback, interrupt, terminate) while it
\* holds a delivered, unacknowledged message, that message is put back at the
\* head of the work queue and nothing else leaves the queue.
C15_NoMessageLostOnShutdown ==
    [][\A w \in Workers :
          (Alive(w) /\ wpc'[w] \in {"stopped", "ended"} /\ wmsg[w] /= NoMsg)
             => /\ workQueue' /= <<>>
                /\ Head(workQueue').body = wmsg[w].body
                /\ Tail(workQueue') = workQueue]_vars

C15_Witness ==
    \E w \in Workers :
        /\ wpc[w] = "stopped"
        /\ settle[w] = <<"deliver", "nack">>
        /\ workQueue /= <<>>
        /\ Head(workQueue).redelivered


\* C16: a worker whose callback gets a work message after the shutdown event
\* was set nacks it with requeue (the message is back at the head of the
\* queue), does not solve it, leaves every KV record unchanged and stops
\* consuming.
C16_ShutdownRequeuesWithoutSolving ==
    [][\A w \in Workers :
          (/\ wpc[w] = "callback"
           /\ shutdown_event
           /\ wpc'[w] \notin {"callback", "ended"})
             => /\ wpc'[w] = "stopped"
                /\ settle'[w] = <<"deliver", "nack">>
                /\ workQueue' = <<[wmsg[w] EXCEPT !.redelivered = TRUE]>> \o workQueue
                /\ wsol'[w] = NoSolution
                /\ kv' = kv]_vars

C16_Witness ==
    \E w \in Workers :
        /\ shutdown_event
        /\ wpc[w] = "stopped"
        /\ wmsg[w] = NoMsg
        /\ wsol[w] = NoSolution
        /\ settle[w] = <<"deliver", "nack">>
        /\ WorkBodies /= {}


\* The steps a Worker takes by itself inside _consume_messages.
consume_messages(w) ==
    \/ deliver(w)
    \/ callback_shutdown(w)
    \/ process_message(w)
    \/ save_solution_get(w)
    \/ save_solution_set(w)
    \/ callback_ack(w)

\* C17: once the shutdown event is set every worker, idle or busy, exits after
\* at most finishing or requeuing its current message; so a worker that is
\* still alive after the event was set has a step of its own left to take, and
\* does not wait for a further message to arrive on an empty queue (while
\* main joins; stop() would terminate it after the grace period).
C17_WorkersExitAfterShutdown ==
    \A w \in Workers :
        (shutdown_event /\ sup = "join" /\ Alive(w) /\ workQueue = <<>>)
            => ENABLED consume_messages(w)


\* C18: after SIGINT or SIGTERM the supervisor sets the event, joins each
\* worker with a grace period and terminates those still alive, so it always
\* terminates with no worker alive: once the event is set and the supervisor
\* has not exited, a worker that stays alive with no step of its own left is
\* one the supervisor can terminate.
C18_SupervisorTerminatesWorkers ==
    \A w \in Workers :
        (/\ shutdown_event
         /\ sup \in {"join", "stop"}
         /\ Alive(w)
         /\ workQueue = <<>>
         /\ ~ENABLED consume_messages(w))
            => ENABLED stop_terminate(w)


\* C19: at every moment a worker holds at most one delivered, unacknowledged
\* work message: the broker delivers a message to a worker only when the
\* worker holds none, however many are ready.
C19_AtMostOneUnacked ==
    [][\A w \in Workers :
          (/\ Len(workQueue') < Len(workQueue)
           /\ wmsg'[w] = Head(workQueue)
           /\ <<wpc'[w], wmsg'[w], settle'[w]>> /= <<wpc[w], wmsg[w], settle[w]>>)
             => wmsg[w] = NoMsg]_vars

C19_Witness ==
    \E w \in Workers :
        /\ wmsg[w] /= NoMsg
        /\ settle[w] = <<"deliver">>
        /\ workQueue /= <<>>
        /\ requeues <= MaxRequeue


\* C20: a submission is stored under an id that is the key of no existing
\* record, also when two submissions run concurrently: whenever create_puzzle
\* writes its record, no record exists under that puzzle_id, so no submission
\* overwrites the record of another.
C20_FreshIdNeverOverwrites ==
    [][\A q \in PuzzleRequests :
          (papi[q].pc = "create" /\ papi'[q].pc = "publish")
             => hkv[papi[q].puzzle_id] = NoRecord]_vars


\* A grid of exactly Size rows of exactly Size characters drawn from [0-9_].
WellFormedGrid(v) ==
    /\ Len(v) = Size
    /\ \A i \in DOMAIN v :
          /\ Len(v[i]) = Size
          /\ \A j \in DOMAIN v[i] : v[i][j] \in DigitChars \cup {"_"}

\* C21: a Sudoku submission whose grid is not exactly Size rows of exactly
\* Size characters from [0-9_] is rejected before it reaches save_problem: no
\* step of that request writes a KV record or publishes to the work queue.
C21_MalformedGridRejected ==
    [][\A r \in Requests :
          (/\ api'[r] /= api[r]
           /\ api'[r].request.route \in {"ip", "sat"}
           /\ ~WellFormedGrid(api'[r].request.grid))
             => (kv' = kv /\ workQueue' = workQueue)]_vars


\* The subscriptions open on puzzle_id id.
OpenOn(id) == {s \in Streams : spc[s].pc = "open" /\ spc[s].puzzle_id = id}

\* C22: a payload published for a puzzle_id is received exactly once by each
\* subscription open on it and by no other; closing one subscription changes
\* nothing for the others, which stay subscribed and so receive the later
\* payloads.
C22_FanOutToEveryOpenSubscription ==
    [][/\ \A s \in Streams :
             Len(squeue'[s]) > Len(squeue[s])
                => LET m == squeue'[s][Len(squeue'[s])]
                   IN \A t \in Streams :
                         squeue'[t] = IF t \in OpenOn(m.puzzle_id)
                                      THEN Append(squeue[t], m)
                                      ELSE squeue[t]
       /\ \A s \in Streams :
             (spc[s].pc = "open" /\ spc'[s].pc = "closed")
                => \A t \in Streams \ {s} :
                      /\ spc'[t] = spc[t]
                      /\ squeue'[t] = squeue[t]
                      /\ spc[t].pc = "open"
                            => /\ spc[t].puzzle_id \in DOMAIN subscribers'
                               /\ t \in subscribers'[spc[t].puzzle_id]]_vars

C22_Witness ==
    \E s \in Streams, t \in Streams :
        /\ s /= t
        /\ spc[s].pc = "closed"
        /\ spc[t].pc = "open"
        /\ Len(squeue[t]) = 2
        /\ squeue[t][1] /= squeue[t][2]


\* C23: each subscription's channel is bounded: it never holds more than
\* Capacity undelivered payloads (a publish that finds it full drops the
\* payload for that subscriber only).
C23_ChannelBounded ==
    \A s \in Streams : Len(squeue[s]) <= Capacity


\* C24: publish for a puzzle_id without subscribers is a no-op: a step that
\* neither opens nor closes a subscription leaves the subscriber map as it
\* is (no entry appears), and a queue whose puzzle_id has no entry in the map
\* receives nothing.
C24_PublishWithoutSubscribersIsNoOp ==
    [][spc' = spc
          => /\ subscribers' = subscribers
             /\ \A s \in Streams :
                   (\A id \in DOMAIN subscribers : s \notin subscribers[id])
                      => squeue'[s] = squeue[s]]_vars

C24_Witness ==
    \E id \in PuzzleIds, other \in PuzzleIds :
        /\ id \notin DOMAIN subscribers
        /\ \A s \in Streams : Len(squeue[s]) < MaxQueue
        /\ other \in DOMAIN subscribers
        /\ \E s \in subscribers[other] : squeue[s] /= <<>>


\* C25: after any sequence of subscribe, publish and close the map holds for
\* each puzzle_id exactly the queues of the subscriptions now open on it, and
\* no key has an empty set.
C25_MapHoldsOpenSubscriptions ==
    /\ DOMAIN subscribers = {id \in PuzzleIds : OpenOn(id) /= {}}
    /\ \A id \in DOMAIN subscribers : subscribers[id] = OpenOn(id)

C25_Witness ==
    \E s \in Streams, t \in Streams :
        /\ spc[s].pc = "closed"
        /\ spc[t].pc = "open"
        /\ squeue[t] /= <<>>
        /\ DOMAIN subscribers = {spc[t].puzzle_id}
        /\ subscribers[spc[t].puzzle_id] = {t}


\* C26: within one subscription payloads are yielded in the order they were
\* published, none twice: a publish puts its payload once, behind those
\* waiting, and the stream takes exactly the oldest one.
C26_FifoWithinSubscription ==
    [][\A s \in Streams :
          /\ Len(squeue'[s]) > Len(squeue[s])
                => /\ Len(squeue'[s]) = Len(squeue[s]) + 1
                   /\ SubSeq(squeue'[s], 1, Len(squeue[s])) = squeue[s]
          /\ (Len(squeue'[s]) < Len(squeue[s]) /\ spc'[s].pc = "open")
                => squeue'[s] = Tail(squeue[s])]_vars

C26_Witness ==
    \E s \in Streams :
        /\ spc[s].pc = "open"
        /\ Len(squeue[s]) = 2
        /\ squeue[s][1].status = "FAILED"
        /\ squeue[s][2].status = "SOLVED"


\* C27: publish and close on the same puzzle_id never deliver to a subscriber
\* already removed from the set: a queue receives a payload only while its
\* subscription is open and in the set of the payload's puzzle_id, and the
\* queue of a closed subscription stays empty.
C27_NoDeliveryAfterClose ==
    [][\A s \in Streams :
          /\ Len(squeue'[s]) > Len(squeue[s])
                => LET m == squeue'[s][Len(squeue'[s])]
                   IN /\ spc[s] = [pc |-> "open", puzzle_id |-> m.puzzle_id]
                      /\ m.puzzle_id \in DOMAIN subscribers
                      /\ s \in subscribers[m.puzzle_id]
          /\ spc[s].pc = "closed" => squeue'[s] = <<>>]_vars

C27_Witness ==
    \E s \in Streams, t \in Streams :
        /\ spc[s].pc = "closed"
        /\ squeue[s] = <<>>
        /\ spc[t].pc = "open"
        /\ Len(squeue[t]) = MaxQueue


\* C28: a stream of /problems/subscribe/{id} has the connected frame, with
\* problem_id and ttl, as its first frame, and one that got no delivery ends
\* with the timeout frame as its last: connected, then timeout.
C28_ConnectedFirstTimeoutLast ==
    /\ sse.pc \in {"connected", "closed", "error"}
          => sse.frames[1] = [type |-> "connected", problem_id |-> sse.problem_id,
                              ttl |-> DefaultTtl]
    /\ sse.pc \in {"closed", "error"}
          => /\ Len(sse.frames) = 2
             /\ sse.frames[2].type = "timeout"

\* C29: a client subscribed to a problem before its result was produced gets
\* an event carrying the terminal status: when such a stream ends after the
\* terminal status was stored and the worker was done with the problem, its
\* last result frame carries that status.
C29_SubscriberGetsTerminalStatus ==
    [][(/\ sse.pc = "connected"
        /\ sse.early
        /\ HasTerminalStatus(sse.problem_id)
        /\ NoWorkLeft(sse.problem_id)
        /\ sse'.pc \in {"closed", "error"})
          => \E i \in DOMAIN sse'.frames :
                /\ sse'.frames[i].type = "result"
                /\ sse'.frames[i].status = kv[sse.problem_id].status
                /\ \A j \in DOMAIN sse'.frames :
                      sse'.frames[j].type = "result" => j <= i]_vars


\* C30: with every pooled connection checked out, a further publish_puzzle
\* call waits and never raises because of the exhaustion: while no
\* connection is free the call stays where it is, and it goes on (to its
\* result or to an error of the publish itself) only from a state in which a
\* connection was free.
C30_ExhaustedPoolBlocks ==
    [][\A q \in PuzzleRequests :
          /\ (papi[q].pc = "publish" /\ connections = 0) => papi'[q] = papi[q]
          /\ (papi[q].pc = "publish" /\ papi'[q].pc /= "publish") => connections > 0]_vars

C30_Witness ==
    \E q \in PuzzleRequests :
        /\ papi[q].pc = "publish"
        /\ connections = 0
        /\ lpc = "consuming"

\* ------------------------------------------------------------- C31
\* The fields by which two Problem values are compared: the class and the
\* dataclass fields the codec carries.
SameProblem(a, b) ==
    /\ a.cls = b.cls
    /\ a.problem_id = b.problem_id
    /\ a.problem_type = b.problem_type
    /\ a.problem_name = b.problem_name
    /\ a.grid = b.grid
    /\ a.status = b.status
    /\ a.solution = b.solution

\* C31: decoding the msgpack encoding of a Problem the API has built yields an
\* equal Problem: same class, problem_id, problem_type, problem_name,
\* problem_data, status and result.
C31_DecodeEncodeIsIdentity ==
    \A r \in Requests :
        api[r].problem /= NoMsg =>
            SameProblem(deserialize_problem(serialize_problem(api[r].problem)),
                        api[r].problem)

\* ------------------------------------------------------------- C32
\* The Problem that create_sudoku_ip_problem builds from the rows a decoded
\* SAT-route problem p carries: the same input submitted through the IP route.
SameInputViaIp(p) ==
    [p EXCEPT !.problem_type = "ip", !.problem_name = "sudoku",
              !.grid = int_grid(p.grid)]

\* The work message worker w holds came from the SAT route.
FromSatRoute(w) ==
    /\ deserialize_ok(wmsg[w].body)
    /\ wmsg[w].body.problem_class = "clients.schemas.sat.sudoku"

\* C32: a Sudoku submitted through the SAT route is found in the registry
\* under (SAT, SUDOKU), and the Solution the worker produces for it has a
\* status and a grid that the same input submitted through the IP route can
\* end with.
C32_SatSudokuSolvedLikeIp ==
    \A w \in Workers :
        (wsol[w] /= NoSolution /\ FromSatRoute(w))
           => /\ Registered("sat", "sudoku")
              /\ LET ip == SameInputViaIp(deserialize_problem(wmsg[w].body))
                 IN  \E r \in AdapterResults(ip) :
                        /\ wsol[w].status = Worker_solve(ip, r).status
                        /\ wsol[w].solution_data = Worker_solve(ip, r).solution_data

\* ------------------------------------------------------------- C33
\* The connections that a call still running holds: consume_results keeps
\* one while it consumes; publish_puzzle takes and returns its own within one
\* step.
CheckedOut == IF lpc = "consuming" THEN 1 ELSE 0

\* C33: acquire and release on the pool are balanced per operation: after a
\* call has ended, normally or by an exception, its connection is back, so
\* pooled plus checked-out connections always equal the pool size.
C33_PoolBalanced == connections + CheckedOut = PoolSize

\* ------------------------------------------------------------- C34
\* A bound of solver.Constraint(lb, ub, name): a finite number, or
\* solver.infinity() with its sign.
Finite(r) == [inf |-> 0, val |-> r]
PlusInfinity == [inf |-> 1, val |-> 0]
MinusInfinity == [inf |-> -1, val |-> 0]

\* The senses a constraint of a formulation can carry.
Senses == {"==", "<=", ">="}

\* The right-hand sides of the constraints of the formulations that the
\* workers have handed to the solver service.
RhsInFlight ==
    UNION {{c.rhs : c \in sudoku_to_ip_constraints(
                              deserialize_problem(wmsg[w].body).grid, Size).constraints} :
              w \in {v \in Workers :
                        /\ wsol[v] /= NoSolution
                        /\ deserialize_ok(wmsg[v].body)
                        /\ ReachesSolver(deserialize_problem(wmsg[v].body))}}

\* IPSolverService._solve_with_ortools: the bounds of the constraint it
\* creates for a known sense.
IPSolverService_bounds(sense, rhs) ==
    CASE sense = "==" -> <<Finite(rhs), Finite(rhs)>>
      [] sense = "<=" -> <<MinusInfinity, Finite(rhs)>>
      [] sense = ">=" -> <<Finite(rhs), PlusInfinity>>

\* IPSolver._solve_with_ortools: lb is rhs only for ">=", ub is rhs only
\* for "<=".
IPSolver_bounds(sense, rhs) ==
    <<IF sense /= ">=" THEN MinusInfinity ELSE Finite(rhs),
      IF sense /= "<=" THEN PlusInfinity ELSE Finite(rhs)>>

\* C34: every IP solver adapter gives a constraint of sense s and right-hand
\* side r the bounds [r, r] for "==", [-infinity, r] for "<=" and
\* [r, +infinity] for ">=", for every right-hand side of a formulation the
\* workers solve.
C34_AdaptersTranslateSense ==
    \A rhs \in RhsInFlight :
        \A adapter \in {[s \in Senses |-> IPSolverService_bounds(s, rhs)],
                         [s \in Senses |-> IPSolver_bounds(s, rhs)]} :
            /\ adapter["=="] = <<Finite(rhs), Finite(rhs)>>
            /\ adapter["<="] = <<MinusInfinity, Finite(rhs)>>
            /\ adapter[">="] = <<Finite(rhs), PlusInfinity>>

\* ====================================================== the Sudoku codecs
\* ------------------------------------------------------------- SAT
\* range(9): the side of the board the SAT encoder is written for.
SatSide == 9
SatRange == 0 .. (SatSide - 1)
SatVariables == 1 .. (SatSide * SatSide * SatSide)

\* A numbering that would start at 0.
var_zero_based(r, c, v) == 81 * r + 9 * c + v

\* var(r, c, v) of sudoku_to_sat_constraints
var(r, c, v) == 81 * r + 9 * c + v + 1

\* sat_solution_to_sudoku_grid: a grid of zeros in which every variable
\* assigned True writes v + 1 into grid[r][c], in the dict's order (ascending
\* index); assignment is the set of the indices assigned True.  A negative
\* row or column index counts from the end, as a Python list index does.
sat_solution_to_sudoku_grid(assignment, size) ==
    [i \in 1 .. size |->
        [j \in 1 .. size |->
            LET row(n) == (n - 1) \div 81
                col(n) == ((n - 1) % 81) \div 9
                hits == {n \in assignment :
                            /\ row(n) \in {i - 1, i - 1 - size}
                            /\ col(n) \in {j - 1, j - 1 - size}}
            IN  IF hits = {} THEN 0
                ELSE (((CHOOSE n \in hits : \A m \in hits : m <= n) - 1) % 9) + 1]]

\* The encoder numbers the variable of value v in cell (r, c); the model
\* handed to the decoder has exactly that variable True.
sat_encode(r, c, v) ==
    /\ sat.pc = "new"
    /\ sat' = [pc |-> "encoded", cell |-> <<r, c, v>>,
               assignment |-> {var(r, c, v)}, grid |-> <<>>]
    /\ UNCHANGED <<pvars, lvars, ipsolve>>

\* The SAT solver reports a model of the clauses in which variable n is True.
sat_model(n) ==
    /\ sat.pc = "new"
    /\ sat' = [pc |-> "model", cell |-> <<>>, assignment |-> {n}, grid |-> <<>>]
    /\ UNCHANGED <<pvars, lvars, ipsolve>>

\* sat_solution_to_sudoku_grid on the model
sat_decode ==
    /\ sat.pc \in {"encoded", "model"}
    /\ sat' = [sat EXCEPT !.pc = "decoded",
                          !.grid = sat_solution_to_sudoku_grid(sat.assignment, SatSide)]
    /\ UNCHANGED <<pvars, lvars, ipsolve>>

CodecNext ==
    \/ \E r \in SatRange, c \in SatRange, v \in SatRange : sat_encode(r, c, v)
    \/ \E n \in SatVariables : sat_model(n)
    \/ sat_decode

CodecSpec == Init /\ [][CodecNext]_vars

\* ------------------------------------------------------------- C35
\* C35: var(r, c, v) = 81 r + 9 c + v + 1 is a bijection from r, c, v in 0..8
\* onto 1..729 (every triple gets an index of 1..729 that no other triple
\* gets, and every index of 1..729 is the index of a triple), and the decoder
\* inverts it: a model in which exactly var(r, c, v) is True for cell (r, c)
\* decodes to grid[r][c] = v + 1.
C35_VarBijectionDecoderInverts ==
    /\ sat.pc = "encoded"
          => \A n \in sat.assignment :
                /\ n \in SatVariables
                /\ \A t \in SatRange \X SatRange \X SatRange :
                      var(t[1], t[2], t[3]) = n => t = sat.cell
    /\ (sat.pc = "decoded" /\ sat.cell /= <<>>)
          => sat.grid[sat.cell[1] + 1][sat.cell[2] + 1] = sat.cell[3] + 1
    /\ (sat.pc = "decoded" /\ sat.cell = <<>>)
          => \E t \in SatRange \X SatRange \X SatRange :
                /\ sat.assignment = {var(t[1], t[2], t[3])}
                /\ sat.grid[t[1] + 1][t[2] + 1] = t[3] + 1

C35_Witness ==
    /\ sat.pc = "decoded"
    /\ sat.cell = <<8, 8, 8>>
    /\ sat.assignment = {729}
    /\ sat.grid[9][9] = 9

\* ------------------------------------------------------------- IP
\* A grid with few clues, whose formulation has several solutions.
SparseGrid ==
    << <<1, 0, 0, 0>>, <<0, 0, 1, 0>>, <<0, 0, 0, 0>>, <<0, 0, 0, 3>> >>

\* The grids whose formulations are solved.
IpGrids == {SolvableGrid, ContradictoryGrid, SparseGrid}

\* SudokuProblemModel.__post_init__: problem_data is the formulation of the
\* grid.
SudokuProblemModel_post_init(g) ==
    /\ ipsolve.pc = "new"
    /\ ipsolve' = [ipsolve EXCEPT !.pc = "solve", !.grid = g,
                                  !.problem_data = sudoku_to_ip_constraints(g, Size)]
    /\ UNCHANGED <<pvars, lvars, sat>>

\* Variable v belongs to one of the first n cells, in the order of the
\* encoder's loops.
InFirstCells(v, n) == v[1] * Size + v[2] < n

\* solver.Solve(), one cell of the search: the binary variables of the next
\* cell take values (digits is the set of those that are 1); an assignment
\* goes on only while every constraint whose variables all have a value is
\* satisfied.
Solve_assign(digits) ==
    /\ ipsolve.pc = "solve"
    /\ ipsolve.assigned < Size * Size
    /\ ipsolve' = [ipsolve EXCEPT
                      !.assigned = ipsolve.assigned + 1,
                      !.ones = ipsolve.ones
                                  \cup {<<ipsolve.assigned \div Size,
                                          ipsolve.assigned % Size, k>> : k \in digits}]
    /\ \A c \in ipsolve.problem_data.constraints :
          (\A v \in c.coefficients \cap ipsolve.problem_data.variables :
               InFirstCells(v, ipsolve'.assigned))
             => Satisfies(ipsolve'.ones, c, ipsolve.problem_data.variables)
    /\ UNCHANGED <<pvars, lvars, sat>>

\* write_back_solution on a solution of the solver: every variable has a
\* value and every constraint holds; ip_solution_to_sudoku_grid decodes it.
SudokuProblemModel_write_back ==
    /\ ipsolve.pc = "solve"
    /\ ipsolve.assigned = Size * Size
    /\ ipsolve' = [ipsolve EXCEPT !.pc = "decoded",
                                  !.out = ip_solution_to_sudoku_grid(ipsolve.ones, Size)]
    /\ UNCHANGED <<pvars, lvars, sat>>

IpCodecNext ==
    \/ \E g \in IpGrids : SudokuProblemModel_post_init(g)
    \/ \E digits \in SUBSET Digits : Solve_assign(digits)
    \/ SudokuProblemModel_write_back

IpCodecSpec == Init /\ [][IpCodecNext]_vars

\* ------------------------------------------------------------- C36
\* C36: every assignment that satisfies all constraints of the Sudoku IP
\* encoder decodes to a grid that carries the submitted clue at every nonzero
\* clue cell and exactly one digit of 1..size in every cell.
C36_SatisfyingAssignmentKeepsClues ==
    ipsolve.pc = "decoded"
       => \A i \in Rows, j \in Rows :
             /\ Cardinality({k \in Digits : <<i, j, k>> \in ipsolve.ones}) = 1
             /\ Cell(ipsolve.out, i, j) \in Digits
             /\ <<i, j, Cell(ipsolve.out, i, j)>> \in ipsolve.ones
             /\ Cell(ipsolve.grid, i, j) /= 0
                   => Cell(ipsolve.out, i, j) = Cell(ipsolve.grid, i, j)

C36_Witness ==
    /\ ipsolve.pc = "decoded"
    /\ ipsolve.grid = SparseGrid
    /\ Cell(ipsolve.out, 0, 0) = 1
    /\ Cell(ipsolve.out, 3, 3) = 3
    /\ Cell(ipsolve.out, 0, 1) = 2

\* ------------------------------------------------------------- C37
\* tasks holds the scheduled process_result_message tasks in the order the
\* listener consumed their messages.  The step in which task i gets through
\* its upsert, and the one in which it publishes.
UpsertStep(i) ==
    /\ i \in DOMAIN tasks
    /\ tasks[i].pc = "upsert"
    /\ tasks' = [tasks EXCEPT ![i].pc = "publish"]

PublishStep(i) ==
    /\ i \in DOMAIN tasks
    /\ tasks[i].pc = "publish"
    /\ tasks' = RemoveAt(tasks, i)

\* The tasks of messages for the same puzzle_id that were consumed before
\* the message of task i.
EarlierSame(i) ==
    {j \in 1 .. (i - 1) : tasks[j].payload.puzzle_id = tasks[i].payload.puzzle_id}

\* C37: result messages for the same puzzle_id are applied to KV and
\* published in the order the listener consumed them: a message is upserted
\* only when every earlier one has been, and published only when every
\* earlier one has been.
C37_ResultsAppliedInConsumedOrder ==
    [][/\ (\E i \in DOMAIN tasks : UpsertStep(i))
             => \E i \in DOMAIN tasks :
                   UpsertStep(i) /\ \A j \in EarlierSame(i) : tasks[j].pc = "publish"
       /\ (\E i \in DOMAIN tasks : PublishStep(i))
             => \E i \in DOMAIN tasks : PublishStep(i) /\ EarlierSame(i) = {}]_vars

\* ------------------------------------------------------------- C38
\* The puzzle pipeline with rabbitmq_pool_size = 1.
PoolOfOneSpec == InitWith(1) /\ [][LegacyNext]_vars

\* No broker call of the API has failed: no publish_puzzle has raised.
BrokerCallsSucceeded == \A q \in PuzzleRequests : papi[q].pc /= "failed"

\* C38: while the result listener is running and broker calls succeed, a
\* publish_puzzle call obtains a pooled connection and completes: the call is
\* never left waiting on a pool that nothing will refill (no step of the
\* pipeline puts back a connection other than the one it took itself, so an
\* empty pool stays empty while the listener consumes).
C38_PublishObtainsConnection ==
    \A q \in PuzzleRequests :
        (papi[q].pc = "publish" /\ lpc = "consuming" /\ BrokerCallsSucceeded)
           => ENABLED publish_puzzle(q)

\* ------------------------------------------------------------- C39
\* C39: a worker never creates a KV record: a step in which a key that held
\* nothing comes to hold a record is never a step of a puzzle_consumer or of
\* a Worker.
C39_WorkerNeverCreatesRecord ==
    [][/\ (\E k \in HashKeys : hkv[k] = NoRecord /\ hkv'[k] /= NoRecord) => cpc' = cpc
       /\ (\E id \in ProblemIds : kv[id] = NoRecord /\ kv'[id] /= NoRecord) => wpc' = wpc]_vars
====
